---- MODULE Spec2Model ----
(***************************************************************************)
(* fiaas-deploy-daemon: workload synthesis (DeploymentDeployer.deploy and  *)
(* delete, in its two revisions deployment/deployer.py and deployment.py)  *)
(* against a cluster object store with optimistic concurrency, the         *)
(* versioned spec resolution exercised by test_spec_factory.py, and the    *)
(* builders of the main container's environment, of its probes and of the  *)
(* descriptor's labels.                                                    *)
(***************************************************************************)
EXTENDS Integers, Sequences, FiniteSets, TLC

\* ------------------------------------------------------------------ bounds
MaxReplicas == 2        \* replica counts range over 1..MaxReplicas
MaxVersion == 6         \* the autoscaler writes while the version token is below it
MaxCalls == 2           \* deploy calls in one behaviour
MaxDocVersion == 4      \* declared document versions range over 0..MaxDocVersion
MaxGlobals == 2         \* global overrides in the daemon configuration
MaxBuilds == 2          \* builds of the environment, or of the metadata, in one behaviour

\* --------------------------------------------------------- program constants
\* faulty variants of the attempt bound: one attempt too many, two too few
max_tries_off_by_one == 5 + 1
max_tries_too_few == 5 - 2
\* @retry_on_upsert_conflict(max_value_seconds=5, max_tries=5)
max_tries == 5

\* the two revisions of the deployer under src/
DEPLOYER == "deployment/deployer.py"
LEGACY == "deployment.py"
Impls == {DEPLOYER, LEGACY}

\* ------------------------------------------------------------------- inputs
\* a health check: which of the three mechanisms the check spec populates
CheckSpecs == [http : BOOLEAN, tcp : BOOLEAN, execute : BOOLEAN]
NoCheck == [http |-> FALSE, tcp |-> FALSE, execute |-> FALSE]
HttpCheck == [http |-> TRUE, tcp |-> FALSE, execute |-> FALSE]
TcpCheck == [http |-> FALSE, tcp |-> TRUE, execute |-> FALSE]

\* the annotation keys ending in "kubernetes.io/init-containers"
InitContainerKeys ==
    {"pod.alpha.kubernetes.io/init-containers", "pod.beta.kubernetes.io/init-containers"}
\* app_spec.annotations.pod, by its keys: both legacy keys and another one
PodAnnotations == InitContainerKeys \cup {"example.com/owner"}

\* the canonical specs a behaviour is run with
AppSpecs ==
    [replicas : 1..MaxReplicas, singleton : BOOLEAN, autoscaler : BOOLEAN,
     liveness : {HttpCheck, NoCheck}, readiness : {TcpCheck},
     pod_annotations : {PodAnnotations}]

\* the daemon configuration: deployment_max_surge, deployment_max_unavailable,
\* and whether datadog_container_image is set
Configs ==
    {[deployment_max_surge |-> 1, deployment_max_unavailable |-> 0,
      datadog_container_image |-> FALSE],
     [deployment_max_surge |-> 0, deployment_max_unavailable |-> 1,
      datadog_container_image |-> TRUE]}

VARIABLES
    app_spec,       \* the CanonicalAppSpec handed to deploy and delete
    config,         \* the daemon configuration
    live,           \* the cluster's object of app_spec.name / app_spec.namespace
    rvCounter,      \* the cluster's last issued resourceVersion
    impl,           \* which revision runs the current deploy call
    calls,          \* deploy calls started
    pc,             \* position of the deploy call
    tries,          \* attempt number of the retry wrapper (1-based)
    replicas,       \* deploy's local `replicas`
    strategy,       \* deploy's local `deployment_strategy`
    deployment,     \* deploy's local `deployment`, from get_or_create
    readAnswer,     \* what Deployment.get answered in this attempt
    log,            \* the steps of the current deploy call, in order
    commits,        \* successful saves of the current deploy call
    committed,      \* the descriptor of the last successful save
    outcome,        \* how the current deploy call ended
    deleted,        \* the last delete call: the cluster's answer and the outcome
    raw,            \* the RawConfigDocument handed to resolve
    fault,          \* which callee of resolve raises, and what
    produced,       \* the spec the terminal factory returns when it succeeds
    rpc,            \* position of the resolve call
    current_version,\* resolve's version counter
    app_config,     \* resolve's current document
    invoked,        \* the transformers resolve has invoked, in order
    factoryCalls,   \* the calls of the terminal factory, with their arguments
    result,         \* what resolve handed to its caller
    builder,        \* which revision builds the environment
    environment,    \* config.environment, "" when unset
    global_env,     \* config.global_env, in the order its items are iterated
    dict_order,     \* the order in which the constants dict is iterated
    envs,           \* the lists _make_env returned, one per build
    probe,          \* the last call of _make_probe: its check spec and its result
    given,          \* the label and annotation maps of the spec and of the caller,
                    \* as they were before the first deploy call
    objects,        \* the same map objects, as they are now
    descriptor,     \* the metadata of the descriptor the last attempt built
    attempts        \* deploy attempts that built their metadata

deployVars == <<impl, calls, pc, tries, replicas, strategy, deployment, readAnswer,
                log, commits, committed, outcome>>
clusterVars == <<live, rvCounter>>
resolveVars == <<raw, fault, produced, rpc, current_version, app_config, invoked,
                 factoryCalls, result>>
labelVars == <<given, objects, descriptor, attempts>>
builderVars == <<builder, environment, global_env, dict_order, envs, probe, labelVars>>
vars == <<app_spec, config, live, rvCounter, impl, calls, pc, tries, replicas,
          strategy, deployment, readAnswer, log, commits, committed, outcome, deleted,
          raw, fault, produced, rpc, current_version, app_config, invoked,
          factoryCalls, result, builder, environment, global_env, dict_order, envs,
          probe, given, objects, descriptor, attempts>>

\* RollingUpdateDeployment; `set` is FALSE where no strategy is given at all
NoStrategy == [set |-> FALSE, maxUnavailable |-> 0, maxSurge |-> 0]
Absent == [exists |-> FALSE, replicas |-> 0, resourceVersion |-> 0, strategy |-> NoStrategy]
NoDeployment == [new |-> FALSE, resourceVersion |-> 0, replicas |-> 0, strategy |-> NoStrategy,
                 annotations |-> {}]
NotAsked == [asked |-> FALSE, found |-> FALSE, replicas |-> 0, attempt |-> 0]
NoCommit == [replicas |-> 0, strategy |-> NoStrategy, attempt |-> 0, new |-> FALSE,
             annotations |-> {}]
NoDelete == [answer |-> "none", outcome |-> "none", propagationPolicy |-> "none"]

\* ------------------------------------------------- resolve: the fixtures
\* test_spec_factory.py 10-15: the identity the caller passes to resolve
NAME == "application-name"
IMAGE == "finntech/docker-image:some-version"
TEAMS == "IO"
TAGS == "Foo"
DEPLOYMENT_ID == "deployment_id"
NAMESPACE == "namespace"

\* test_spec_factory.py 29: the terminal factory's version
factory_version == 3
\* test_spec_factory.py 31-33: the registered transformers, by version
transformers == {1, 2}

\* a raw document: its optional version field, and the transformers it has
\* been through
NoDocument == [has_version |-> FALSE, version |-> 0, trail |-> <<>>]
RawDocuments ==
    {NoDocument} \cup [has_version : {TRUE}, version : 0..MaxDocVersion, trail : {<<>>}]

\* the exceptions a transformer or the factory raises
DataErrors == {"AttributeError", "KeyError", "IndexError", "ValueError", "TypeError",
               "NameError"}
Exceptions == DataErrors \cup {"InvalidConfiguration"}
NoFault == [at |-> 0, kind |-> "none"]
Faults == {NoFault} \cup [at : transformers \cup {factory_version}, kind : Exceptions]

\* the spec a factory call returns: whether its datadog integration is enabled
NoSpec == [built |-> FALSE, datadog_enabled |-> FALSE, from |-> NoDocument]
NoResult == [kind |-> "none", cause |-> "none", spec |-> NoSpec]

\* --------------------------------------------- environment: the fixtures
\* the version of the artifact the spec names
VERSION == "some-version"
\* config.infrastructure and config.log_format
INFRASTRUCTURE == "diy"
LOG_FORMAT == "plain"
\* config.environment: unset, or the name of an environment
Environments == {"", "prod"}
\* the names and values config.global_env is drawn from: a reserved name, a
\* name whose prefixed form is reserved when config.environment is set, the
\* unprefixed name of a field reference, a free name and its prefixed form
GlobalNames == {"IMAGE", "ENVIRONMENT", "NAMESPACE", "FOO", "FIAAS_FOO"}
GlobalValues == {"a", "b"}
GlobalEnvs ==
    {g \in UNION {[1..n -> [name : GlobalNames, value : GlobalValues]] : n \in 0..MaxGlobals} :
        \A i, j \in DOMAIN g : i # j => g[i].name # g[j].name}
\* Python 2 iterates an unchanged dict in one fixed, unspecified order
DictOrders == {"ascending", "descending"}
NoProbe == [called |-> FALSE, check_spec |-> NoCheck,
            result |-> [error |-> FALSE, httpGet |-> FALSE, tcpSocket |-> FALSE,
                        exec |-> FALSE]]

\* ------------------------------------------------ metadata: the fixtures
\* a label map: some of the keys, each with the value its owner gives it
LabelKeys == {"app", "team"}
LabelMaps(value) == {[k \in keys |-> value] : keys \in SUBSET LabelKeys}
\* app_spec.labels.deployment, app_spec.labels.pod, app_spec.annotations and
\* the selector and labels arguments of deploy
MapInputs ==
    [spec_deployment : LabelMaps("spec"),
     spec_pod : {<<>>, [k \in {"team"} |-> "spec"]},
     labels : LabelMaps("caller"),
     selector : {[k \in {"app"} |-> NAME]},
     annotations_deployment : {[k \in {"example.com/owner"} |-> "spec"]},
     annotations_pod : {[k \in PodAnnotations |-> "spec"]}]
NoMaps ==
    [spec_deployment |-> <<>>, spec_pod |-> <<>>, labels |-> <<>>, selector |-> <<>>,
     annotations_deployment |-> <<>>, annotations_pod |-> <<>>]
NoDescriptor ==
    [built |-> FALSE, labels |-> <<>>, annotations |-> <<>>, pod_labels |-> <<>>,
     pod_annotations |-> <<>>, matchLabels |-> <<>>]

\* ------------------------------------------------------------ pure helpers
\* fiaas_deploy_daemon.deployer.kubernetes.autoscaler.should_have_autoscaler:
\* "if the spec enables autoscaling"
should_have_autoscaler(spec) == spec.autoscaler

\* faulty variant: every populated mechanism is set, and an empty check spec
\* gives a probe without an action
_make_probe_every_populated(check_spec) ==
    [error |-> FALSE, httpGet |-> check_spec.http, tcpSocket |-> check_spec.tcp,
     exec |-> check_spec.execute]
\* deployer.py 205-222 / deployment.py 197-211, _make_probe: the one action
\* the probe carries, or the RuntimeError "AppSpec must have exactly one
\* health check, none was defined."
_make_probe(check_spec) ==
    IF check_spec.http
    THEN [error |-> FALSE, httpGet |-> TRUE, tcpSocket |-> FALSE, exec |-> FALSE]
    ELSE IF check_spec.tcp
    THEN [error |-> FALSE, httpGet |-> FALSE, tcpSocket |-> TRUE, exec |-> FALSE]
    ELSE IF check_spec.execute
    THEN [error |-> FALSE, httpGet |-> FALSE, tcpSocket |-> FALSE, exec |-> TRUE]
    ELSE [error |-> TRUE, httpGet |-> FALSE, tcpSocket |-> FALSE, exec |-> FALSE]

\* faulty variant: the singleton override is missing
deployment_strategy_always_configured(spec, cfg) ==
    [set |-> TRUE, maxUnavailable |-> cfg.deployment_max_unavailable,
     maxSurge |-> cfg.deployment_max_surge]
\* deployer.py 93-98: the rollout strategy of a spec under a configuration
deployment_strategy(spec, cfg) ==
    IF spec.replicas = 1 /\ spec.singleton
    THEN [set |-> TRUE, maxUnavailable |-> 1, maxSurge |-> 0]
    ELSE [set |-> TRUE, maxUnavailable |-> cfg.deployment_max_unavailable,
          maxSurge |-> cfg.deployment_max_surge]

\* faulty variant: the live replica count is never taken over
replicas_ignoring_live(spec_replicas, found, live_replicas) == spec_replicas
\* deployer.py 82-91 / deployment.py 85-92: the replica count after the live read
replicas_after_get(spec_replicas, found, live_replicas) ==
    IF found THEN live_replicas ELSE spec_replicas

\* faulty variant: every error of Deployment.get is passed over
handled_inline_any_get_error(step, error) == step = "get"
\* deployer.py 85-91: the one error deploy handles itself is the NotFound of
\* Deployment.get; everything else leaves the function
handled_inline(step, error) == step = "get" /\ error = "NotFound"

\* faulty variant: NotFound leaves delete as an error
delete_outcome_raising_not_found(answer) ==
    IF answer = "Deleted" THEN "returned" ELSE "raised"
\* deployer.py 112-116: delete returns normally on success and on NotFound
delete_outcome(answer) ==
    IF answer \in {"Deleted", "NotFound"} THEN "returned" ELSE "raised"

\* the retry wrapper: a conflict in attempt n is retried while n < max_tries
retry_on_upsert_conflict(n) == n < max_tries

\* faulty variant: a retry repeats only get_or_create .. save
retry_from_commit_sequence == "get_or_create"
\* deployer.py 41-42: the wrapper decorates deploy as a whole, so a retried
\* attempt starts again at the top of deploy
retry_entry == "build"

\* every name an environment entry can carry here, in the order of Python's
\* comparison of str (by code point)
NameOrder ==
    <<"ARTIFACT_NAME", "CONSTRETTO_TAGS", "ENVIRONMENT", "FIAAS_ENVIRONMENT",
      "FIAAS_FIAAS_FOO", "FIAAS_FOO", "FIAAS_IMAGE",
      "FIAAS_INFRASTRUCTURE", "FIAAS_LIMITS_CPU", "FIAAS_LIMITS_MEMORY",
      "FIAAS_NAMESPACE", "FIAAS_POD_NAME", "FIAAS_REQUESTS_CPU",
      "FIAAS_REQUESTS_MEMORY", "FINN_ENV", "FOO", "IMAGE", "LOG_FORMAT", "LOG_STDOUT",
      "NAMESPACE", "VERSION">>
\* the position of every name in NameOrder
Ranks == [n \in {NameOrder[i] : i \in DOMAIN NameOrder} |->
             CHOOSE i \in DOMAIN NameOrder : NameOrder[i] = n]
\* the sort key of deployer.py 169, as a position in NameOrder
Rank(name) == Ranks[name]

\* EnvVar(name=, value=); `origin` records which part of _make_env wrote it
EnvVar(name, value, origin) ==
    [name |-> name, value |-> value, valueFrom |-> "none", origin |-> origin]
\* EnvVar(name=, valueFrom=EnvVarSource(...))
FieldRef(name, ref) ==
    [name |-> name, value |-> "none", valueFrom |-> ref, origin |-> "fieldRef"]

\* "kubernetes-{env},kubernetes,{env}"
constretto_tags(e) == "kubernetes-" \o e \o ",kubernetes," \o e
\* deployer.py 225-238: the static constants of a daemon configuration
_build_fiaas_env(e) ==
    IF e # ""
    THEN ("FINN_ENV" :> e) @@ ("FIAAS_ENVIRONMENT" :> e)
         @@ ("CONSTRETTO_TAGS" :> constretto_tags(e))
         @@ ("FIAAS_INFRASTRUCTURE" :> INFRASTRUCTURE) @@ ("LOG_STDOUT" :> "true")
         @@ ("LOG_FORMAT" :> LOG_FORMAT)
    ELSE ("FIAAS_INFRASTRUCTURE" :> INFRASTRUCTURE) @@ ("LOG_STDOUT" :> "true")
         @@ ("LOG_FORMAT" :> LOG_FORMAT) @@ ("CONSTRETTO_TAGS" :> "kubernetes")
\* deployment.py 24-31: the static constants of the older revision
_fiaas_env(e) ==
    ("FINN_ENV" :> e) @@ ("FIAAS_INFRASTRUCTURE" :> INFRASTRUCTURE)
    @@ ("FIAAS_ENVIRONMENT" :> e) @@ ("CONSTRETTO_TAGS" :> constretto_tags(e))
    @@ ("LOG_STDOUT" :> "true") @@ ("LOG_FORMAT" :> "json")
\* _make_env: `constants`, the static constants and the three of the spec
constants(i, e) ==
    ("ARTIFACT_NAME" :> NAME) @@ ("IMAGE" :> IMAGE) @@ ("VERSION" :> VERSION)
    @@ (IF i = DEPLOYER THEN _build_fiaas_env(e) ELSE _fiaas_env(e))

\* constants.iteritems(): the entries of the keys not yet visited
RECURSIVE iteritems(_, _, _)
iteritems(d, keys, order) ==
    IF keys = {} THEN <<>>
    ELSE LET k == CHOOSE k \in keys : \A o \in keys :
                      IF order = "ascending" THEN Rank(k) <= Rank(o)
                      ELSE Rank(k) >= Rank(o)
         IN <<EnvVar(k, d[k], "constants")>> \o iteritems(d, keys \ {k}, order)

\* faulty variant: only the bare name is looked up
reserved_bare_name_only(name, c) == name \in DOMAIN c
\* deployer.py 146 / deployment.py 152: the override is ignored when its
\* name or its FIAAS_ form is a key of constants
reserved(name, c) == ("FIAAS_" \o name) \in DOMAIN c \/ name \in DOMAIN c

\* deployer.py 144-150 / deployment.py 150-156: the loop over self._global_env
RECURSIVE global_entries(_, _)
global_entries(g, c) ==
    IF g = <<>> THEN <<>>
    ELSE (IF ~reserved(Head(g).name, c)
          THEN <<EnvVar(Head(g).name, Head(g).value, Head(g).name),
                 EnvVar("FIAAS_" \o Head(g).name, Head(g).value, Head(g).name)>>
          ELSE <<>>) \o global_entries(Tail(g), c)

\* deployer.py 152-168: the entries computed from the running object
field_refs ==
    <<FieldRef("FIAAS_REQUESTS_CPU", "requests.cpu"),
      FieldRef("FIAAS_REQUESTS_MEMORY", "requests.memory"),
      FieldRef("FIAAS_LIMITS_CPU", "limits.cpu"),
      FieldRef("FIAAS_LIMITS_MEMORY", "limits.memory"),
      FieldRef("FIAAS_NAMESPACE", "metadata.namespace"),
      FieldRef("FIAAS_POD_NAME", "metadata.name")>>

\* x goes behind every entry whose name is not greater: list.sort is stable
RECURSIVE insert(_, _)
insert(sorted, x) ==
    IF sorted = <<>> THEN <<x>>
    ELSE IF Rank(x.name) < Rank(Head(sorted).name) THEN <<x>> \o sorted
    ELSE <<Head(sorted)>> \o insert(Tail(sorted), x)
\* faulty variant: the list is returned as it was assembled
unsorted(env) == env
\* deployer.py 169: env.sort(key=lambda x: x.name)
RECURSIVE sort(_)
sort(env) ==
    IF env = <<>> THEN <<>>
    ELSE insert(sort(SubSeq(env, 1, Len(env) - 1)), env[Len(env)])

\* deployer.py 136-170 / deployment.py 143-158
_make_env(i, e, g, order) ==
    LET c == constants(i, e)
        env == iteritems(c, DOMAIN c, order) \o global_entries(g, c)
    IN IF i = DEPLOYER THEN sort(env \o field_refs) ELSE env

\* fiaas_deploy_daemon.tools.merge_dicts: a new map, the later argument wins
merge_dicts(a, b) == b @@ a
\* dict.update: the map object after d.update(other)
update(d, other) == other @@ d
\* deployer.py 190-195 returns the copy that carries fiaas/status;
\* deployment.py 164-169 builds the same copy and returns `labels`
_add_status_label(i, labels) ==
    IF i = DEPLOYER THEN update(labels, [k \in {"fiaas/status"} |-> "active"])
    ELSE labels

\* ------------------------------------------------------------------- Init
LabelIdle ==
    /\ given = NoMaps
    /\ objects = NoMaps
    /\ descriptor = NoDescriptor
    /\ attempts = 0

BuilderIdle ==
    /\ builder = DEPLOYER
    /\ environment = ""
    /\ global_env = <<>>
    /\ dict_order = "ascending"
    /\ envs = <<>>
    /\ probe = NoProbe
    /\ LabelIdle

DeployIdle ==
    /\ impl = DEPLOYER
    /\ calls = 0
    /\ pc = "idle"
    /\ tries = 0
    /\ replicas = 0
    /\ strategy = NoStrategy
    /\ deployment = NoDeployment
    /\ readAnswer = NotAsked
    /\ log = <<>>
    /\ commits = 0
    /\ committed = NoCommit
    /\ outcome = "none"
    /\ deleted = NoDelete

ResolveIdle ==
    /\ raw = NoDocument
    /\ fault = NoFault
    /\ produced = NoSpec
    /\ rpc = "idle"
    /\ current_version = 0
    /\ app_config = NoDocument
    /\ invoked = <<>>
    /\ factoryCalls = <<>>
    /\ result = NoResult

Init ==
    /\ app_spec \in AppSpecs
    /\ config \in Configs
    /\ \/ live = Absent /\ rvCounter = 0
       \/ \E r \in 1..MaxReplicas :
             /\ live = [exists |-> TRUE, replicas |-> r, resourceVersion |-> 1,
                        strategy |-> NoStrategy]
             /\ rvCounter = 1
    /\ DeployIdle
    /\ ResolveIdle
    /\ BuilderIdle

\* ------------------------------------------------------------ deploy call
\* the caller invokes deploy(app_spec, selector, labels[, besteffort])
StartDeploy ==
    /\ pc \in {"idle", "done"}
    /\ calls < MaxCalls
    /\ \E i \in Impls : impl' = i
    /\ calls' = calls + 1
    /\ pc' = "build"
    /\ tries' = 1
    /\ replicas' = 0
    /\ strategy' = NoStrategy
    /\ deployment' = NoDeployment
    /\ readAnswer' = NotAsked
    /\ log' = <<>>
    /\ commits' = 0
    /\ committed' = NoCommit
    /\ outcome' = "running"
    /\ deleted' = NoDelete
    /\ UNCHANGED <<app_spec, config, builderVars, resolveVars, clusterVars>>

\* the record of the last deploy call is dropped when another call begins
Forget ==
    /\ pc' = "idle"
    /\ tries' = 0
    /\ replicas' = 0
    /\ strategy' = NoStrategy
    /\ deployment' = NoDeployment
    /\ readAnswer' = NotAsked
    /\ log' = <<>>
    /\ commits' = 0
    /\ committed' = NoCommit
    /\ outcome' = "none"

\* the error leaves deploy: the call is over
Surface(kind, entries) ==
    /\ pc' = "done"
    /\ outcome' = kind
    /\ log' = log \o entries

\* deployer.py 43-82 / deployment.py 37-85: the pure build up to
\* `replicas = app_spec.replicas`; _make_probe raises on an empty check spec
Build ==
    /\ pc = "build"
    /\ readAnswer' = NotAsked
    /\ deployment' = NoDeployment
    /\ strategy' = NoStrategy
    /\ IF _make_probe(app_spec.liveness).error \/ _make_probe(app_spec.readiness).error
       THEN /\ Surface("error", <<"build", "Error">>)
            /\ UNCHANGED replicas
       ELSE /\ replicas' = app_spec.replicas
            /\ pc' = IF should_have_autoscaler(app_spec) THEN "get" ELSE "get_or_create"
            /\ log' = Append(log, "build")
            /\ UNCHANGED outcome
    /\ UNCHANGED <<app_spec, config, builderVars, resolveVars, clusterVars, impl, calls, tries, commits, committed,
                   deleted>>

\* what the cluster answers to a read of the object
GetAnswers == {IF live.exists THEN "Found" ELSE "NotFound", "ServerError"}

\* deployer.py 84-91 / deployment.py 87-92: Deployment.get, NotFound passed over
Get ==
    /\ pc = "get"
    /\ \E answer \in GetAnswers :
          IF answer = "Found" \/ handled_inline("get", answer)
          THEN /\ replicas' = replicas_after_get(replicas, answer = "Found", live.replicas)
               /\ readAnswer' = [asked |-> TRUE, found |-> answer = "Found",
                                 replicas |-> IF answer = "Found" THEN live.replicas ELSE 0,
                                 attempt |-> tries]
               /\ pc' = "get_or_create"
               /\ log' = log \o (IF answer = "ServerError" THEN <<"get", "Error">>
                                 ELSE <<"get">>)
               /\ UNCHANGED outcome
          ELSE /\ Surface("error", <<"get", "Error">>)
               /\ UNCHANGED <<replicas, readAnswer>>
    /\ UNCHANGED <<app_spec, config, builderVars, resolveVars, clusterVars, impl, calls, tries, strategy, deployment,
                   commits, committed, deleted>>

\* deployer.py 93-103 / deployment.py 94-97: strategy, DeploymentSpec and
\* Deployment.get_or_create: the live object with its version token and the
\* spec fields overwritten, or a new one
GetOrCreate ==
    /\ pc = "get_or_create"
    /\ LET s == IF impl = DEPLOYER THEN deployment_strategy(app_spec, config)
                ELSE NoStrategy
       IN /\ strategy' = s
          /\ deployment' = [new |-> ~live.exists,
                            resourceVersion |-> live.resourceVersion,
                            replicas |-> replicas, strategy |-> s,
                            annotations |-> IF impl = DEPLOYER
                                            THEN app_spec.pod_annotations ELSE {}]
    /\ pc' = IF impl = DEPLOYER THEN "clear" ELSE "save"
    /\ log' = Append(log, "get_or_create")
    /\ UNCHANGED <<app_spec, config, builderVars, resolveVars, clusterVars, impl, calls, tries, replicas, readAnswer,
                   commits, committed, outcome, deleted>>

\* a local step of deployer.py between get_or_create and save
LocalStep(here, next) ==
    /\ pc = here
    /\ pc' = next
    /\ log' = Append(log, here)
    /\ UNCHANGED <<app_spec, config, builderVars, resolveVars, clusterVars, impl, calls, tries, replicas, strategy,
                   deployment, readAnswer, commits, committed, outcome, deleted>>

\* deployer.py 173-187: the keys ending in kubernetes.io/init-containers are
\* deleted from the pod template's annotations
_clear_pod_init_container_annotations(annotations) == annotations \ InitContainerKeys

\* faulty variant: the collaborators are passed over
clear_then_save ==
    /\ pc = "clear"
    /\ pc' = "save"
    /\ log' = Append(log, "clear")
    /\ UNCHANGED <<app_spec, config, builderVars, resolveVars, clusterVars, impl, calls, tries,
                   replicas, strategy, deployment, readAnswer, commits, committed, outcome,
                   deleted>>
\* deployer.py 104: _clear_pod_init_container_annotations(deployment)
Clear ==
    /\ pc = "clear"
    /\ pc' = "datadog"
    /\ deployment' = [deployment EXCEPT
                          !.annotations = _clear_pod_init_container_annotations(@)]
    /\ log' = Append(log, "clear")
    /\ UNCHANGED <<app_spec, config, builderVars, resolveVars, clusterVars, impl, calls, tries,
                   replicas, strategy, readAnswer, commits, committed, outcome, deleted>>
\* deployer.py 105: self._datadog.apply(deployment, app_spec, besteffort_qos_is_required)
Datadog == LocalStep("datadog", "prometheus")
\* deployer.py 106: self._prometheus.apply(deployment, app_spec)
Prometheus == LocalStep("prometheus", "secrets")
\* deployer.py 107: self._secrets.apply(deployment, app_spec)
Secrets == LocalStep("secrets", "save")

\* what the cluster answers to the commit: POST of a new object, or PUT
\* under the version token read by get_or_create
SaveAnswer ==
    IF deployment.new
    THEN IF live.exists THEN "Conflict" ELSE "Created"
    ELSE IF ~live.exists THEN "NotFound"
    ELSE IF live.resourceVersion # deployment.resourceVersion THEN "Conflict"
    ELSE "Updated"

\* deployer.py 108 / deployment.py 98: deployment.save(), under the retry
\* wrapper of deployer.py 41
Save ==
    /\ pc = "save"
    /\ IF SaveAnswer \in {"Created", "Updated"}
       THEN /\ live' = [exists |-> TRUE, replicas |-> deployment.replicas,
                        resourceVersion |-> rvCounter + 1,
                        strategy |-> deployment.strategy]
            /\ rvCounter' = rvCounter + 1
            /\ commits' = commits + 1
            /\ committed' = [replicas |-> deployment.replicas,
                             strategy |-> deployment.strategy,
                             attempt |-> tries, new |-> deployment.new,
                             annotations |-> deployment.annotations]
            /\ pc' = "done"
            /\ outcome' = "returned"
            /\ log' = Append(log, "save")
            /\ UNCHANGED tries
       ELSE /\ UNCHANGED <<live, rvCounter, commits, committed>>
            /\ IF SaveAnswer = "Conflict"
               THEN IF impl = DEPLOYER /\ retry_on_upsert_conflict(tries)
                    THEN /\ tries' = tries + 1
                         /\ pc' = retry_entry
                         /\ log' = log \o <<"save", "Conflict">>
                         /\ UNCHANGED outcome
                    ELSE /\ Surface("conflict", <<"save", "Conflict">>)
                         /\ UNCHANGED tries
               ELSE /\ Surface("error", <<"save", "Error">>)
                    /\ UNCHANGED tries
    /\ UNCHANGED <<app_spec, config, builderVars, resolveVars, impl, calls, replicas, strategy, deployment,
                   readAnswer, deleted>>

\* the steps of deploy that call the cluster or a collaborator and can fail
\* with an error that is neither a conflict nor the NotFound of the read
FallibleSteps == {"get_or_create", "datadog", "prometheus", "secrets", "save"}

\* deployer.py 103-108: an exception of get_or_create, of a collaborator's
\* apply or of save leaves deploy
Raise ==
    /\ pc \in FallibleSteps
    /\ Surface("error", <<pc, "Error">>)
    /\ UNCHANGED <<app_spec, config, builderVars, resolveVars, clusterVars, impl, calls, tries, replicas, strategy,
                   deployment, readAnswer, commits, committed, deleted>>

\* ------------------------------------------------------------- environment
\* the separate autoscaler process writes the replica count of the live object
Autoscaler ==
    /\ live.exists
    /\ rvCounter < MaxVersion
    /\ \E r \in (1..MaxReplicas) \ {live.replicas} :
          live' = [live EXCEPT !.replicas = r, !.resourceVersion = rvCounter + 1]
    /\ rvCounter' = rvCounter + 1
    /\ UNCHANGED <<app_spec, config, builderVars, resolveVars, deployVars, deleted>>

\* ------------------------------------------------------------- delete call
\* what the cluster answers to the foreground delete
DeleteAnswers == {IF live.exists THEN "Deleted" ELSE "NotFound", "ServerError"}

\* deployer.py 110-116 / deployment.py 100-106: delete(app_spec); the driver
\* that invokes deploy and delete for one application runs them one at a time
Delete ==
    /\ pc \in {"idle", "done"}
    /\ \E answer \in DeleteAnswers :
          /\ deleted' = [answer |-> answer, outcome |-> delete_outcome(answer),
                         propagationPolicy |-> "Foreground"]
          /\ live' = IF answer = "Deleted" THEN Absent ELSE live
    /\ Forget
    /\ UNCHANGED <<app_spec, config, builderVars, resolveVars, rvCounter, impl, calls>>

Next ==
    \/ StartDeploy
    \/ Build
    \/ Get
    \/ GetOrCreate
    \/ Clear
    \/ Datadog
    \/ Prometheus
    \/ Secrets
    \/ Save
    \/ Raise
    \/ Autoscaler
    \/ Delete

Spec == Init /\ [][Next]_vars

\* ------------------------------------------------------- deploy: claims
\* how often x occurs in the sequence s
RECURSIVE Count(_, _)
Count(s, x) ==
    IF s = <<>> THEN 0
    ELSE (IF Head(s) = x THEN 1 ELSE 0) + Count(Tail(s), x)

\* C1: the descriptor deploy commits carries the replica count the live read
\* answered when the spec enables autoscaling and the object was found, and
\* the replica count of the spec in every other case
C1_CommittedReplicas ==
    commits > 0 =>
        committed.replicas =
            IF app_spec.autoscaler /\ readAnswer.asked /\ readAnswer.found
            THEN readAnswer.replicas
            ELSE app_spec.replicas
C1_Witness ==
    /\ commits > 0
    /\ app_spec.autoscaler
    /\ readAnswer.found
    /\ readAnswer.replicas # app_spec.replicas
    /\ committed.replicas = readAnswer.replicas

\* C2: a call of the retried deploy that met k < 5 conflicts and no other
\* error ends with one successful commit, k + 1 commit attempts and no error
C2_ConflictsThenSuccess ==
    (impl = DEPLOYER /\ pc = "done" /\ Count(log, "Error") = 0
        /\ Count(log, "Conflict") < 5) =>
        /\ outcome = "returned"
        /\ commits = 1
        /\ Count(log, "save") = Count(log, "Conflict") + 1
        /\ tries = Count(log, "Conflict") + 1
C2_Witness ==
    /\ impl = DEPLOYER
    /\ pc = "done"
    /\ Count(log, "Conflict") = 2
    /\ outcome = "returned"
    /\ commits = 1

\* C3: a call whose every commit attempt meets a conflict makes at most 5
\* attempts, commits nothing and ends with the conflict error
C3_ConflictsExhausted ==
    /\ tries <= 5
    /\ Count(log, "save") <= 5
    /\ Count(log, "Conflict") = 5 =>
          pc = "done" /\ outcome = "conflict" /\ commits = 0
    /\ outcome = "conflict" =>
          /\ pc = "done"
          /\ commits = 0
          /\ log[Len(log)] = "Conflict"
          /\ impl = DEPLOYER => Count(log, "Conflict") = 5
C3_Witness ==
    /\ impl = DEPLOYER
    /\ outcome = "conflict"
    /\ Count(log, "Conflict") = 5
    /\ Count(log, "build") = 5

\* C4: an error that is neither a conflict nor the NotFound of the live read
\* ends the call at once: it is the last thing the call did, the call ended
\* with that error, and nothing was committed
C4_ErrorPropagates ==
    Count(log, "Error") > 0 =>
        /\ Count(log, "Error") = 1
        /\ log[Len(log)] = "Error"
        /\ pc = "done"
        /\ outcome = "error"
        /\ commits = 0
C4_Witness ==
    /\ outcome = "error"
    /\ tries = 2
    /\ Len(log) > 2
    /\ log[Len(log) - 1] = "secrets"

\* C5: every attempt of the retried deploy starts again from the build and
\* reads the live object anew: what an attempt carries past the read, and
\* what it commits, is the answer read in that same attempt
C5_RetryRereads ==
    /\ \A i \in 1..Len(log) :
          (log[i] = "Conflict" /\ i < Len(log)) =>
              /\ log[i + 1] = "build"
              /\ i + 1 < Len(log) =>
                    log[i + 2] = IF app_spec.autoscaler THEN "get" ELSE "get_or_create"
    /\ (impl = DEPLOYER /\ app_spec.autoscaler
            /\ pc \in {"get_or_create", "clear", "datadog", "prometheus", "secrets",
                       "save"}) =>
          /\ readAnswer.attempt = tries
          /\ replicas = IF readAnswer.found THEN readAnswer.replicas
                        ELSE app_spec.replicas
    /\ (impl = DEPLOYER /\ app_spec.autoscaler /\ commits > 0) =>
          /\ readAnswer.attempt = committed.attempt
          /\ readAnswer.found => committed.replicas = readAnswer.replicas
C5_Witness ==
    /\ impl = DEPLOYER
    /\ app_spec.autoscaler
    /\ commits = 1
    /\ committed.attempt = 3
    /\ readAnswer.attempt = 3
    /\ committed.replicas # app_spec.replicas

\* C6: the rollout strategy of the descriptor deployer.py produces is
\* max-surge 0 / max-unavailable 1 for a singleton spec with one replica, and
\* the configured max-surge / max-unavailable for every other spec
C6_Expected ==
    IF app_spec.replicas = 1 /\ app_spec.singleton
    THEN [set |-> TRUE, maxUnavailable |-> 1, maxSurge |-> 0]
    ELSE [set |-> TRUE, maxUnavailable |-> config.deployment_max_unavailable,
          maxSurge |-> config.deployment_max_surge]
C6_RolloutStrategy ==
    /\ (impl = DEPLOYER /\ pc \in {"clear", "datadog", "prometheus", "secrets", "save"}) =>
          deployment.strategy = C6_Expected
    /\ (impl = DEPLOYER /\ commits > 0) =>
          committed.strategy = C6_Expected /\ live.strategy = C6_Expected
C6_Witness ==
    /\ impl = DEPLOYER
    /\ commits > 0
    /\ app_spec.replicas = 1
    /\ app_spec.singleton
    /\ config.deployment_max_surge = 1
    /\ committed.strategy.maxSurge = 0
    /\ committed.strategy.maxUnavailable = 1

\* C7: a delete call sends one foreground delete, returns normally when the
\* object was there and when the cluster answers NotFound, and leaves the
\* object absent, however many delete calls came before
C7_DeleteIdempotent ==
    /\ deleted.answer # "none" => deleted.propagationPolicy = "Foreground"
    /\ deleted.answer \in {"Deleted", "NotFound"} =>
          deleted.outcome = "returned" /\ ~live.exists
C7_Witness ==
    /\ deleted.answer = "NotFound"
    /\ deleted.outcome = "returned"
    /\ ~live.exists
    /\ calls > 0

\* ---------------------------------------------------------------- resolve
\* faulty variant: the output declares the version after the next
transformer_skipping_a_version(v, doc) ==
    [has_version |-> TRUE, version |-> v + 2, trail |-> Append(doc.trail, v)]
\* test_spec_factory.py 21, 25: a transformer turns a document of version v
\* into one of version v + 1
transformer(v, doc) ==
    [has_version |-> TRUE, version |-> v + 1, trail |-> Append(doc.trail, v)]

\* the lowest registered version, which a document without a version has
lowest_version == CHOOSE v \in transformers : \A w \in transformers : v <= w

\* read `version` from the raw document, defaulting to the lowest registered
declared_version(doc) == IF doc.has_version THEN doc.version ELSE lowest_version

\* faulty variant: no version is rejected
supported_any(v) == TRUE
\* the versions resolve accepts: a registered transformer's, or the factory's
supported(v) == v \in transformers \cup {factory_version}

\* faulty variant: only a KeyError is wrapped
wrap_only_key_errors(kind) ==
    IF kind = "KeyError"
    THEN [kind |-> "InvalidConfiguration", cause |-> kind, spec |-> NoSpec]
    ELSE [kind |-> kind, cause |-> "none", spec |-> NoSpec]
\* the catch-and-wrap boundary of resolve: a data error becomes
\* InvalidConfiguration with the error as cause, InvalidConfiguration passes
wrap(kind) ==
    IF kind = "InvalidConfiguration"
    THEN [kind |-> "InvalidConfiguration", cause |-> "none", spec |-> NoSpec]
    ELSE [kind |-> "InvalidConfiguration", cause |-> kind, spec |-> NoSpec]

\* faulty variant: the daemon's datadog image is not looked at
validate_without_image_check(spec, cfg) == TRUE
\* whole-spec validation: datadog enabled needs the daemon's datadog image
validate(spec, cfg) == ~spec.datadog_enabled \/ cfg.datadog_container_image

\* resolve(name, image, rawDocument, team, tags, deploymentId, namespace):
\* the version is read and checked
Resolve ==
    /\ rpc \in {"idle", "done"}
    /\ \E doc \in RawDocuments, f \in Faults, d \in BOOLEAN :
          /\ raw' = doc
          /\ fault' = f
          /\ produced' = [built |-> TRUE, datadog_enabled |-> d, from |-> NoDocument]
          /\ app_config' = doc
          /\ current_version' = declared_version(doc)
          /\ invoked' = <<>>
          /\ factoryCalls' = <<>>
          /\ IF supported(declared_version(doc))
             THEN /\ rpc' = "chain"
                  /\ result' = NoResult
             ELSE /\ rpc' = "done"
                  /\ result' = wrap("InvalidConfiguration")
    /\ UNCHANGED <<app_spec, config, builderVars, clusterVars, deployVars, deleted>>

\* while the current version is below the terminal one: apply its transformer
Transform ==
    /\ rpc = "chain"
    /\ current_version < factory_version
    /\ invoked' = Append(invoked, [version |-> current_version, doc |-> app_config])
    /\ IF current_version \notin transformers
       THEN /\ rpc' = "done"
            /\ result' = wrap("KeyError")
            /\ UNCHANGED <<app_config, current_version>>
       ELSE IF fault.at = current_version
       THEN /\ rpc' = "done"
            /\ result' = wrap(fault.kind)
            /\ UNCHANGED <<app_config, current_version>>
       ELSE /\ app_config' = transformer(current_version, app_config)
            /\ current_version' = transformer(current_version, app_config).version
            /\ UNCHANGED <<rpc, result>>
    /\ UNCHANGED <<app_spec, config, builderVars, clusterVars, deployVars, deleted, raw, fault, produced,
                   factoryCalls>>

\* the terminal version is reached: the factory is invoked
Factory ==
    /\ rpc = "chain"
    /\ current_version >= factory_version
    /\ factoryCalls' = Append(factoryCalls,
                              [name |-> NAME, image |-> IMAGE, teams |-> TEAMS,
                               tags |-> TAGS, app_config |-> app_config,
                               deployment_id |-> DEPLOYMENT_ID, namespace |-> NAMESPACE])
    /\ IF fault.at = factory_version
       THEN /\ rpc' = "done"
            /\ result' = wrap(fault.kind)
       ELSE /\ rpc' = "validate"
            /\ result' = [kind |-> "none", cause |-> "none",
                          spec |-> [produced EXCEPT !.from = app_config]]
    /\ UNCHANGED <<app_spec, config, builderVars, clusterVars, deployVars, deleted, raw, fault, produced,
                   current_version, app_config, invoked>>

\* whole-spec validation of the spec the factory produced
Validate ==
    /\ rpc = "validate"
    /\ rpc' = "done"
    /\ result' = IF validate(result.spec, config)
                 THEN [result EXCEPT !.kind = "AppSpec"]
                 ELSE wrap("InvalidConfiguration")
    /\ UNCHANGED <<app_spec, config, builderVars, clusterVars, deployVars, deleted, raw, fault, produced,
                   current_version, app_config, invoked, factoryCalls>>

ResolveInit ==
    /\ app_spec = [replicas |-> 1, singleton |-> FALSE, autoscaler |-> FALSE,
                   liveness |-> HttpCheck, readiness |-> TcpCheck,
                   pod_annotations |-> PodAnnotations]
    /\ config \in Configs
    /\ live = Absent
    /\ rvCounter = 0
    /\ DeployIdle
    /\ ResolveIdle
    /\ BuilderIdle

ResolveNext ==
    \/ Resolve
    \/ Transform
    \/ Factory
    \/ Validate

ResolveSpec == ResolveInit /\ [][ResolveNext]_vars

\* ---------------------------------------------------------- the builders
\* deploy line 49: env = self._make_env(app_spec)
MakeEnv ==
    /\ Len(envs) < MaxBuilds
    /\ envs' = Append(envs, _make_env(builder, environment, global_env, dict_order))
    /\ UNCHANGED <<app_spec, config, clusterVars, deployVars, deleted, resolveVars,
                   builder, environment, global_env, dict_order, probe, labelVars>>

\* deploy lines 60-61: _make_probe(app_spec.health_checks.liveness / .readiness),
\* for one check spec in a behaviour
MakeProbe ==
    /\ ~probe.called
    /\ \E check_spec \in CheckSpecs :
          probe' = [called |-> TRUE, check_spec |-> check_spec,
                    result |-> _make_probe(check_spec)]
    /\ UNCHANGED <<app_spec, config, clusterVars, deployVars, deleted, resolveVars,
                   builder, environment, global_env, dict_order, envs, labelVars>>

BuilderInit ==
    /\ app_spec = [replicas |-> 1, singleton |-> FALSE, autoscaler |-> FALSE,
                   liveness |-> HttpCheck, readiness |-> TcpCheck,
                   pod_annotations |-> PodAnnotations]
    /\ config = [deployment_max_surge |-> 1, deployment_max_unavailable |-> 0,
                 datadog_container_image |-> FALSE]
    /\ live = Absent
    /\ rvCounter = 0
    /\ DeployIdle
    /\ ResolveIdle
    /\ builder \in Impls
    /\ environment \in Environments
    /\ global_env \in GlobalEnvs
    /\ dict_order \in DictOrders
    /\ envs = <<>>
    /\ probe = NoProbe
    /\ LabelIdle

BuilderNext ==
    \/ MakeEnv
    \/ MakeProbe

BuilderSpec == BuilderInit /\ [][BuilderNext]_vars

\* ------------------------------------------------------------ the metadata
\* deployer.py 44-46, 78-80, 99 / deployment.py 38-41, 80-83, 94: the labels
\* and annotations of the descriptor one attempt of deploy builds; the older
\* revision updates the map it got from app_spec.labels
BuildMetadata ==
    /\ attempts < MaxBuilds
    /\ attempts' = attempts + 1
    /\ IF builder = DEPLOYER
       THEN /\ descriptor' =
                  [built |-> TRUE,
                   labels |-> merge_dicts(objects.spec_deployment, objects.labels),
                   annotations |-> objects.annotations_deployment,
                   pod_labels |-> merge_dicts(objects.spec_pod,
                                              _add_status_label(builder, objects.labels)),
                   pod_annotations |-> objects.annotations_pod,
                   matchLabels |-> objects.selector]
            /\ UNCHANGED objects
       ELSE /\ objects' = [objects EXCEPT !.spec_deployment = update(@, objects.labels)]
            /\ descriptor' =
                  [built |-> TRUE,
                   labels |-> update(objects.spec_deployment, objects.labels),
                   annotations |-> objects.annotations_deployment,
                   pod_labels |-> _add_status_label(builder, objects.labels),
                   pod_annotations |-> <<>>,
                   matchLabels |-> _add_status_label(builder, objects.selector)]
    /\ UNCHANGED <<app_spec, config, clusterVars, deployVars, deleted, resolveVars,
                   builder, environment, global_env, dict_order, envs, probe, given>>

MetadataInit ==
    /\ app_spec = [replicas |-> 1, singleton |-> FALSE, autoscaler |-> FALSE,
                   liveness |-> HttpCheck, readiness |-> TcpCheck,
                   pod_annotations |-> PodAnnotations]
    /\ config = [deployment_max_surge |-> 1, deployment_max_unavailable |-> 0,
                 datadog_container_image |-> FALSE]
    /\ live = Absent
    /\ rvCounter = 0
    /\ DeployIdle
    /\ ResolveIdle
    /\ builder \in Impls
    /\ environment = ""
    /\ global_env = <<>>
    /\ dict_order = "ascending"
    /\ envs = <<>>
    /\ probe = NoProbe
    /\ given \in MapInputs
    /\ objects = given
    /\ descriptor = NoDescriptor
    /\ attempts = 0

MetadataNext == BuildMetadata

MetadataSpec == MetadataInit /\ [][MetadataNext]_vars

\* ------------------------------------------------------ resolve: claims
\* the version a raw document declares; one without a version field counts
\* as the lowest registered version
Declared(doc) == IF doc.has_version THEN doc.version ELSE 1
Registered(v) == v \in {1, 2}

\* C8: for a document whose declared version is neither a registered
\* transformer's nor the terminal factory's, resolve ends with
\* InvalidConfiguration and invokes neither a transformer nor the factory
C8_UnsupportedVersion ==
    (rpc # "idle" /\ raw.has_version /\ ~Registered(raw.version) /\ raw.version # 3) =>
        /\ rpc = "done"
        /\ result.kind = "InvalidConfiguration"
        /\ factoryCalls = <<>>
        /\ invoked = <<>>
C8_Witness ==
    /\ rpc = "done"
    /\ raw.has_version
    /\ raw.version = 4
    /\ result.kind = "InvalidConfiguration"
    /\ factoryCalls = <<>>

\* the transformers v, v + 1, ..., v + n - 1
Chain(v, n) == [j \in 1..n |-> v + j - 1]

\* C9: for a document of a registered or terminal version v, the transformers
\* invoked are those of v, v + 1, ... in this order, each once and each on
\* the previous one's output (the first on the given document); the factory
\* is invoked at most once, only after the transformers of v .. 2 and on the
\* last one's output, with the caller's identity; and a call in which no
\* callee raises invokes the factory exactly once
C9_ChainOrder ==
    (rpc # "idle" /\ (Registered(Declared(raw)) \/ Declared(raw) = 3)) =>
        LET v == Declared(raw) IN
        /\ Len(invoked) <= 3 - v
        /\ \A i \in 1..Len(invoked) :
              /\ invoked[i].version = v + i - 1
              /\ invoked[i].doc.trail = Chain(v, i - 1)
              /\ i = 1 => invoked[i].doc = raw
        /\ Len(factoryCalls) <= 1
        /\ factoryCalls # <<>> =>
              /\ Len(invoked) = 3 - v
              /\ \A i \in 1..Len(invoked) : fault.at # invoked[i].version
              /\ factoryCalls[1].app_config.trail = Chain(v, 3 - v)
              /\ v = 3 => factoryCalls[1].app_config = raw
              /\ v < 3 => factoryCalls[1].app_config.version = 3
              /\ factoryCalls[1].name = NAME
              /\ factoryCalls[1].image = IMAGE
              /\ factoryCalls[1].teams = TEAMS
              /\ factoryCalls[1].tags = TAGS
              /\ factoryCalls[1].deployment_id = DEPLOYMENT_ID
              /\ factoryCalls[1].namespace = NAMESPACE
        /\ (rpc \in {"validate", "done"} /\ (fault.at < v \/ fault.at > 3)) =>
              Len(factoryCalls) = 1
C9_Witness ==
    /\ rpc = "done"
    /\ ~raw.has_version
    /\ Len(invoked) = 2
    /\ invoked[2].version = 2
    /\ Len(factoryCalls) = 1
    /\ result.kind = "AppSpec"

\* the fault of this call was raised: its callee was invoked
FaultRaised ==
    \/ \E i \in 1..Len(invoked) : invoked[i].version = fault.at
    \/ fault.at = 3 /\ factoryCalls # <<>>

\* C10: whatever a transformer or the factory raises reaches the caller as
\* InvalidConfiguration: a data error wrapped, with itself as the cause, and
\* an InvalidConfiguration as it was; the caller sees no other error kind
C10_UniformError ==
    /\ rpc = "done" => result.kind \in {"AppSpec", "InvalidConfiguration"}
    /\ FaultRaised =>
          /\ rpc = "done"
          /\ result.kind = "InvalidConfiguration"
          /\ result.cause = IF fault.kind = "InvalidConfiguration" THEN "none"
                            ELSE fault.kind
C10_Witness ==
    /\ rpc = "done"
    /\ fault.at = 3
    /\ fault.kind = "NameError"
    /\ factoryCalls # <<>>
    /\ result.kind = "InvalidConfiguration"
    /\ result.cause = "NameError"

\* C11: when the spec the factory produced has the datadog integration
\* enabled, resolve ends with InvalidConfiguration if the daemon has no
\* datadog container image, and otherwise returns the spec the factory
\* produced, unchanged
C11_WholeSpecValidation ==
    (rpc = "done" /\ factoryCalls # <<>> /\ ~FaultRaised /\ produced.datadog_enabled) =>
        IF config.datadog_container_image
        THEN /\ result.kind = "AppSpec"
             /\ result.cause = "none"
             /\ result.spec = [produced EXCEPT !.from = factoryCalls[1].app_config]
        ELSE /\ result.kind = "InvalidConfiguration"
             /\ result.spec = NoSpec
C11_Witness ==
    /\ rpc = "done"
    /\ factoryCalls # <<>>
    /\ ~FaultRaised
    /\ produced.datadog_enabled
    /\ ~config.datadog_container_image
    /\ result.kind = "InvalidConfiguration"

\* C15: in every attempt of deployer.py's deploy the steps follow one order:
\* the live read (only with autoscaling), get_or_create, the clearing of the
\* init-container annotation keys, the datadog, prometheus and secrets
\* collaborators, and the commit as the last step; a commit attempt has all
\* of them before it in its attempt, and what it commits has the keys cleared
C15_Successors(step) ==
    CASE step = "build" -> {IF app_spec.autoscaler THEN "get" ELSE "get_or_create", "Error"}
      [] step = "get" -> {"get_or_create", "Error"}
      [] step = "get_or_create" -> {"clear", "Error"}
      [] step = "clear" -> {"datadog"}
      [] step = "datadog" -> {"prometheus", "Error"}
      [] step = "prometheus" -> {"secrets", "Error"}
      [] step = "secrets" -> {"save", "Error"}
      [] step = "save" -> {"Conflict", "Error"}
      [] step = "Conflict" -> {"build"}
      [] OTHER -> {}
C15_StepOrder ==
    impl = DEPLOYER =>
        /\ \A i \in 1..(Len(log) - 1) : log[i + 1] \in C15_Successors(log[i])
        /\ \A i \in DOMAIN log : log[i] = "save" =>
              /\ i > 6
              /\ <<log[i - 5], log[i - 4], log[i - 3], log[i - 2], log[i - 1]>> =
                    <<"get_or_create", "clear", "datadog", "prometheus", "secrets">>
              /\ IF app_spec.autoscaler
                 THEN i > 7 /\ log[i - 6] = "get" /\ log[i - 7] = "build"
                 ELSE log[i - 6] = "build"
        /\ pc \in {"datadog", "prometheus", "secrets", "save"} =>
              deployment.annotations = app_spec.pod_annotations \ InitContainerKeys
        /\ commits > 0 =>
              /\ commits = 1
              /\ log[Len(log)] = "save"
              /\ committed.annotations \cap InitContainerKeys = {}
C15_Witness ==
    /\ impl = DEPLOYER
    /\ app_spec.autoscaler
    /\ commits = 1
    /\ tries = 2
    /\ Count(log, "save") = 2
    /\ Count(log, "clear") = 2
    /\ committed.annotations = {"example.com/owner"}

\* C18: with autoscaling enabled and a live object present, a successful
\* commit of deployer.py's deploy leaves the live object's replica count as
\* it was immediately before the commit
C18_CommitKeepsLiveReplicas ==
    [][(impl = DEPLOYER /\ app_spec.autoscaler /\ live.exists /\ commits' = commits + 1)
          => live'.replicas = live.replicas]_vars

\* ----------------------------------------------------- builders: claims
\* the reserved names: the static constants of the revision and configuration,
\* and ARTIFACT_NAME, IMAGE, VERSION
ReservedNames ==
    {"FIAAS_INFRASTRUCTURE", "LOG_STDOUT", "LOG_FORMAT", "CONSTRETTO_TAGS",
     "ARTIFACT_NAME", "IMAGE", "VERSION"}
    \cup (IF builder = LEGACY \/ environment # ""
          THEN {"FINN_ENV", "FIAAS_ENVIRONMENT"} ELSE {})
\* the override's name, or its FIAAS_ form, is a reserved name
Collides(name) == name \in ReservedNames \/ ("FIAAS_" \o name) \in ReservedNames
\* the positions of a built list that carry the name
Named(env, name) == {k \in DOMAIN env : env[k].name = name}

\* C12: a global override whose name or FIAAS_-prefixed name is reserved is
\* dropped: every built list holds no entry written for it, every reserved
\* name has exactly one entry, the one of the constants with its own value
C12_OverrideDropped ==
    \A b \in DOMAIN envs :
        /\ \A g \in DOMAIN global_env : Collides(global_env[g].name) =>
              \A k \in DOMAIN envs[b] : envs[b][k].origin # global_env[g].name
        /\ \A r \in ReservedNames :
              /\ Cardinality(Named(envs[b], r)) = 1
              /\ \A k \in Named(envs[b], r) :
                    /\ envs[b][k].origin = "constants"
                    /\ envs[b][k].value = constants(builder, environment)[r]
                    /\ envs[b][k].value \notin GlobalValues
C12_Witness ==
    /\ environment = "prod"
    /\ Len(global_env) = 2
    /\ global_env[1].name = "ENVIRONMENT"
    /\ global_env[2].name = "FOO"
    /\ Len(envs) = 1
    /\ Named(envs[1], "ENVIRONMENT") = {}
    /\ Cardinality(Named(envs[1], "FIAAS_ENVIRONMENT")) = 1
    /\ Named(envs[1], "FOO") # {}

C14_ProbeAction ==
    probe.called =>
        LET c == probe.check_spec
            p == probe.result
        IN IF ~c.http /\ ~c.tcp /\ ~c.execute
           THEN /\ p.error
                /\ ~p.httpGet /\ ~p.tcpSocket /\ ~p.exec
           ELSE /\ ~p.error
                /\ Cardinality({a \in {"httpGet", "tcpSocket", "exec"} : p[a]}) = 1
                /\ p.httpGet = c.http
                /\ p.tcpSocket = (~c.http /\ c.tcp)
                /\ p.exec = (~c.http /\ ~c.tcp /\ c.execute)
C14_Witness ==
    /\ probe.called
    /\ probe.check_spec = [http |-> FALSE, tcp |-> TRUE, execute |-> TRUE]
    /\ probe.result.tcpSocket
    /\ ~probe.result.exec

\* C19: no list deployer.py builds holds two entries with the same name
C19_NoDuplicateNames ==
    builder = DEPLOYER =>
        \A b \in DOMAIN envs : \A j, k \in DOMAIN envs[b] :
            j # k => envs[b][j].name # envs[b][k].name

\* ----------------------------------------------------- metadata: claims
\* C16: after any number of attempts the label and annotation maps of the
\* spec and of the caller are what they were before the first, and the merged
\* workload labels, the caller's winning, are in the descriptor
C16_InputsNotMutated ==
    attempts > 0 =>
        /\ objects = given
        /\ \A k \in DOMAIN descriptor.labels :
              descriptor.labels[k] =
                  IF k \in DOMAIN given.labels THEN given.labels[k]
                  ELSE given.spec_deployment[k]
        /\ DOMAIN descriptor.labels = DOMAIN given.labels \cup DOMAIN given.spec_deployment

\* C17: the pod-template labels of every built descriptor hold every label
\* the caller passed and fiaas/status=active, and the caller's map is as it was
C17_StatusLabelAdded ==
    descriptor.built =>
        /\ "fiaas/status" \in DOMAIN descriptor.pod_labels
        /\ descriptor.pod_labels["fiaas/status"] = "active"
        /\ \A k \in DOMAIN given.labels :
              k \in DOMAIN descriptor.pod_labels /\ descriptor.pod_labels[k] = given.labels[k]
        /\ objects.labels = given.labels
====
